---- MODULE Spec2Model ----
(***************************************************************************)
(* Model of the waste-classification decision core (backend/app/rules.py)  *)
(* and of the two HTTP handlers that call it (backend/app/main.py).        *)
(*                                                                         *)
(* Scores are integers in thousandths: 0.85 is 850, 0.70 is 700.           *)
(* An Optional value is a sequence of length at most one: None is <<>>,    *)
(* a present value x is <<x>>.                                             *)
(* A text built by an f-string is the sequence of its pieces.              *)
(***************************************************************************)
EXTENDS Integers, Sequences, FiniteSets, TLC

\* ------------------------------------------------------------------------
\* Bounds of the model
\* ------------------------------------------------------------------------

\* Longest label list handed to an engine or sent back by a client.
MaxLabels == 6

\* Number of handler calls one client session makes at most.
MaxCalls == 3

\* How far outside [0, 1] (in thousandths) the scores given to the bucketer go.
ScoreMargin == 40

\* ------------------------------------------------------------------------
\* Program constants
\* ------------------------------------------------------------------------

\* rules.py: if score >= 0.85
HIGH_THRESHOLD == 850

\* rules.py: if score >= 0.65
MEDIUM_THRESHOLD == 650

\* schemas.py: score: float = Field(ge=0.0, le=1.0)
MAX_SCORE == 1000

\* rules.py: the slices [:5]
TOP_N == 5

\* rules.py, apply_clarification: confidence_score=0.70
FOOD_SOILED_SCORE == 700

\* rules.py, apply_clarification: confidence_score=0.55
UNKNOWN_ANSWER_SCORE == 550

None == <<>>

Some(x) == <<x>>

\* ------------------------------------------------------------------------
\* schemas.py
\* ------------------------------------------------------------------------

BinType == {"BLUE", "GREEN", "GRAY", "SPECIAL", "UNKNOWN"}

Confidence == {"HIGH", "MEDIUM", "LOW"}

RationaleTypes == {"DETECTED_ITEM", "RULE", "USER_INPUT", "SAFETY", "SYSTEM"}

SpecialCategories == {"BATTERY", "E_WASTE", "HHW", "SHARPS", "UNKNOWN"}

LabelScore(label, score) == [label |-> label, score |-> score]

RationaleItem(type, text) == [type |-> type, text |-> text]

SpecialHandling(category, instructions) ==
    [category |-> category, instructions |-> instructions, links |-> <<>>]

Clarification(question_id, question_text, options) ==
    [question_id |-> question_id, question_text |-> question_text,
     answer_type |-> "BOOLEAN", options |-> options]

Result(bin, bin_label, confidence, confidence_score, rationale, top_labels) ==
    [bin |-> bin, bin_label |-> bin_label, confidence |-> confidence,
     confidence_score |-> confidence_score, rationale |-> rationale,
     top_labels |-> top_labels]

ClassifyResponse(request_id, jurisdiction_id, result, needs_clarification, clarification, special_handling) ==
    [request_id |-> request_id, jurisdiction_id |-> jurisdiction_id,
     result |-> result, needs_clarification |-> needs_clarification,
     clarification |-> clarification, special_handling |-> special_handling]

\* ------------------------------------------------------------------------
\* The item profile (vision_provider.py names the values of each attribute)
\* ------------------------------------------------------------------------

DeclaredMaterials ==
    {"paper_cardboard", "rigid_plastic", "film_plastic", "metal", "glass",
     "organic", "textile", "unknown"}

DeclaredFormFactors ==
    {"bottle", "can", "box", "bag_film", "cup", "tray", "utensil", "sheet",
     "mixed", "unknown"}

DeclaredContamination == {"low", "medium", "high", "unknown"}

DeclaredSpecial == {"battery", "e_waste", "hhw", "sharps", "none"}

\* One value outside each declared enumeration: the engine reads the
\* attributes as plain strings and must be total on them.
Materials == DeclaredMaterials \cup {"ceramic"}

FormFactors == DeclaredFormFactors \cup {"sphere"}

ContaminationRisks == DeclaredContamination \cup {"extreme"}

SpecialCodes == DeclaredSpecial \cup {"radio_active"}

ItemProfile(material, form_factor, contamination_risk, special_handling, confidence, raw_labels) ==
    [material |-> material, form_factor |-> form_factor,
     contamination_risk |-> contamination_risk,
     special_handling |-> special_handling,
     confidence |-> confidence, raw_labels |-> raw_labels]

\* ------------------------------------------------------------------------
\* rules.py: helpers
\* ------------------------------------------------------------------------

\* Mutant of Take: the slice keeps one entry too many.
Take_offByOne(seq, n) ==
    SubSeq(seq, 1, IF Len(seq) < n + 1 THEN Len(seq) ELSE n + 1)

\* Python's seq[:n]
Take(seq, n) == SubSeq(seq, 1, IF Len(seq) < n THEN Len(seq) ELSE n)

\* Mutant of _confidence_bucket: strict comparisons at the two boundaries.
_confidence_bucket_strict(score) ==
    IF score > HIGH_THRESHOLD THEN "HIGH"
    ELSE IF score > MEDIUM_THRESHOLD THEN "MEDIUM"
    ELSE "LOW"

\* rules.py:9-14
_confidence_bucket(score) ==
    IF score >= HIGH_THRESHOLD THEN "HIGH"
    ELSE IF score >= MEDIUM_THRESHOLD THEN "MEDIUM"
    ELSE "LOW"

\* Mutant of special_category_map: the key of e-waste misspelt, so that the
\* code falls to the default.
special_category_map_typo(code) ==
    CASE code = "battery" -> "BATTERY"
      [] code = "ewaste" -> "E_WASTE"
      [] code = "hhw" -> "HHW"
      [] code = "sharps" -> "SHARPS"
      [] OTHER -> "UNKNOWN"

\* rules.py:40-46, special_category_map.get(code, "UNKNOWN")
special_category_map(code) ==
    CASE code = "battery" -> "BATTERY"
      [] code = "e_waste" -> "E_WASTE"
      [] code = "hhw" -> "HHW"
      [] code = "sharps" -> "SHARPS"
      [] OTHER -> "UNKNOWN"

\* rules.py:48-54, instructions_map.get(code, "Requires special disposal...")
instructions_map(code) ==
    CASE code = "battery" -> "Do not place in curbside bins. Take to a household hazardous waste drop-off or a retailer collection point."
      [] code = "e_waste" -> "Do not place in curbside bins. Take to an e-waste collection facility or retailer drop-off."
      [] code = "hhw" -> "Do not place in curbside bins. Take to a household hazardous waste collection facility."
      [] code = "sharps" -> "Do not place in curbside bins. Use a sharps container and take to a designated collection site."
      [] OTHER -> "Requires special disposal. Check local guidelines."

\* rules.py:66, code.replace('_', ' ').title() on the codes of SpecialCodes
TitleOf(code) ==
    CASE code = "battery" -> "Battery"
      [] code = "e_waste" -> "E Waste"
      [] code = "hhw" -> "Hhw"
      [] code = "sharps" -> "Sharps"
      [] code = "radio_active" -> "Radio Active"
      [] OTHER -> code

\* Python's str(bool) inside an f-string
BoolStr(b) == IF b THEN "True" ELSE "False"

YesNoOptions ==
    <<[value |-> TRUE, label |-> "Yes"], [value |-> FALSE, label |-> "No"]>>

\* Mutant of FoodSoiledQuestion: the id of the question bumped to a version
\* the resolver does not know.
FoodSoiledQuestion_renamed ==
    Clarification("q_food_soiled_02",
                  "Is it food-soiled (grease/food residue)?", YesNoOptions)

\* rules.py:110-115 and 285-290
FoodSoiledQuestion ==
    Clarification("q_food_soiled_01",
                  "Is it food-soiled (grease/food residue)?", YesNoOptions)

\* rules.py:165-170, 182-187 and 302-307
UnknownQuestion ==
    Clarification("q_unknown_01",
                  "I'm not confident. Is the item mostly food/plant-based?",
                  YesNoOptions)

\* rules.py:219-224
TryAgainQuestion ==
    Clarification("q_try_again_01",
                  "Could you retake the photo with one item and better lighting?",
                  <<[value |-> TRUE, label |-> "OK"]>>)

\* The tuple (Result, needs_clarification, clarification, special_handling)
\* that both engines return.
Outcome(res, needs_clarification, clarification, special_handling) ==
    [result |-> res, needs_clarification |-> needs_clarification,
     clarification |-> clarification, special_handling |-> special_handling]

\* Mutant of recyclable_materials: film plastic counted as recyclable.
recyclable_materials_withFilm ==
    {"paper_cardboard", "metal", "glass", "rigid_plastic", "film_plastic"}

\* rules.py:84
recyclable_materials == {"paper_cardboard", "metal", "glass", "rigid_plastic"}

\* ------------------------------------------------------------------------
\* rules.py: decide_bin_from_profile
\* ------------------------------------------------------------------------

\* rules.py:28
ProfileTopLabels(profile) == Take(profile.raw_labels, TOP_N)

\* rules.py:31-34
ProfileRationale(profile) ==
    <<RationaleItem("DETECTED_ITEM",
        <<"Material: ", profile.material, ", Form: ", profile.form_factor,
          ", Contamination: ", profile.contamination_risk>>)>>

\* The Result every branch of decide_bin_from_profile builds.
ProfileResult(profile, bin, bin_label, entry) ==
    Result(bin, bin_label, _confidence_bucket(profile.confidence),
           profile.confidence,
           ProfileRationale(profile) \o <<entry>>,
           ProfileTopLabels(profile))

\* Mutant of SpecialBranch: a code without a category is deferred to the
\* user with the generic question.
SpecialBranch_asks(profile) ==
    Outcome(ProfileResult(profile, "SPECIAL", "Special handling",
                RationaleItem("SAFETY",
                    <<TitleOf(profile.special_handling),
                      " requires special disposal">>)),
            special_category_map(profile.special_handling) = "UNKNOWN",
            IF special_category_map(profile.special_handling) = "UNKNOWN"
            THEN Some(UnknownQuestion) ELSE None,
            Some(SpecialHandling(special_category_map(profile.special_handling),
                                 instructions_map(profile.special_handling))))

\* rules.py:39-69
SpecialBranch(profile) ==
    Outcome(ProfileResult(profile, "SPECIAL", "Special handling",
                RationaleItem("SAFETY",
                    <<TitleOf(profile.special_handling),
                      " requires special disposal">>)),
            FALSE, None,
            Some(SpecialHandling(special_category_map(profile.special_handling),
                                 instructions_map(profile.special_handling))))

\* rules.py:72-81
OrganicBranch(profile) ==
    Outcome(ProfileResult(profile, "GREEN", "Organics",
                RationaleItem("RULE", <<"Organic materials go in organics">>)),
            FALSE, None, None)

\* rules.py:85-94
CleanRecyclableBranch(profile) ==
    Outcome(ProfileResult(profile, "BLUE", "Recycling",
                RationaleItem("RULE",
                    <<"Clean recyclable materials go in recycling">>)),
            FALSE, None, None)

\* rules.py:97-106
FilmPlasticBranch(profile) ==
    Outcome(ProfileResult(profile, "GRAY", "Landfill (Trash)",
                RationaleItem("RULE",
                    <<"Plastic film/bags are usually not accepted in curbside recycling">>)),
            FALSE, None, None)

\* Mutant of PaperUnknownBranch: paper of unknown contamination gets the
\* generic question.
PaperUnknownBranch_generic(profile) ==
    Outcome(ProfileResult(profile, "UNKNOWN", "Not sure yet",
                RationaleItem("RULE",
                    <<"Paper can be recycling if clean; organics/trash if food-soiled">>)),
            TRUE, Some(UnknownQuestion), None)

\* rules.py:109-124
PaperUnknownBranch(profile) ==
    Outcome(ProfileResult(profile, "UNKNOWN", "Not sure yet",
                RationaleItem("RULE",
                    <<"Paper can be recycling if clean; organics/trash if food-soiled">>)),
            TRUE, Some(FoodSoiledQuestion), None)

\* rules.py:127-137
PaperHighBranch(profile) ==
    Outcome(ProfileResult(profile, "GREEN", "Organics",
                RationaleItem("RULE",
                    <<"Food-soiled paper goes in organics (where accepted)">>)),
            FALSE, None, None)

\* rules.py:140-149
PaperMediumBranch(profile) ==
    Outcome(ProfileResult(profile, "GREEN", "Organics",
                RationaleItem("RULE",
                    <<"Moderately soiled paper typically goes in organics">>)),
            FALSE, None, None)

\* rules.py:152-161
ContaminatedBranch(profile) ==
    Outcome(ProfileResult(profile, "GRAY", "Landfill (Trash)",
                RationaleItem("RULE",
                    <<"Contaminated recyclables typically go in trash">>)),
            FALSE, None, None)

\* rules.py:164-179
UnknownAttributeBranch(profile) ==
    Outcome(ProfileResult(profile, "UNKNOWN", "Not sure yet",
                RationaleItem("SYSTEM",
                    <<"Falling back to clarification for safety">>)),
            TRUE, Some(UnknownQuestion), None)

\* Mutant of DefaultBranch: what no rule matches is sent to landfill.
DefaultBranch_trash(profile) ==
    Outcome(ProfileResult(profile, "GRAY", "Landfill (Trash)",
                RationaleItem("RULE", <<"Unable to determine classification">>)),
            FALSE, None, None)

\* rules.py:182-196
DefaultBranch(profile) ==
    Outcome(ProfileResult(profile, "UNKNOWN", "Not sure yet",
                RationaleItem("SYSTEM",
                    <<"Unable to determine classification">>)),
            TRUE, Some(UnknownQuestion), None)

\* Mutant of DecisionTable: the rule for contaminated recyclables is tried
\* before the rules for soiled paper.
DecisionTable_contaminatedFirst(profile) ==
    IF profile.special_handling # "none" THEN SpecialBranch(profile)
    ELSE IF profile.material = "organic" THEN OrganicBranch(profile)
    ELSE IF profile.material \in recyclable_materials
            /\ profile.contamination_risk = "low"
        THEN CleanRecyclableBranch(profile)
    ELSE IF profile.material = "film_plastic" THEN FilmPlasticBranch(profile)
    ELSE IF profile.material = "paper_cardboard"
            /\ profile.contamination_risk = "unknown"
        THEN PaperUnknownBranch(profile)
    ELSE IF profile.material \in recyclable_materials
            /\ profile.contamination_risk \in {"medium", "high"}
        THEN ContaminatedBranch(profile)
    ELSE IF profile.material = "paper_cardboard"
            /\ profile.contamination_risk = "high"
        THEN PaperHighBranch(profile)
    ELSE IF profile.material = "paper_cardboard"
            /\ profile.contamination_risk = "medium"
        THEN PaperMediumBranch(profile)
    ELSE IF profile.material = "unknown" \/ profile.form_factor = "unknown"
        THEN UnknownAttributeBranch(profile)
    ELSE DefaultBranch(profile)

\* Mutant of DecisionTable: the rule for an unknown material or form factor
\* is tried before the rules on the material.
DecisionTable_unknownFirst(profile) ==
    IF profile.special_handling # "none" THEN SpecialBranch(profile)
    ELSE IF profile.material = "unknown" \/ profile.form_factor = "unknown"
        THEN UnknownAttributeBranch(profile)
    ELSE IF profile.material = "organic" THEN OrganicBranch(profile)
    ELSE IF profile.material \in recyclable_materials
            /\ profile.contamination_risk = "low"
        THEN CleanRecyclableBranch(profile)
    ELSE IF profile.material = "film_plastic" THEN FilmPlasticBranch(profile)
    ELSE IF profile.material = "paper_cardboard"
            /\ profile.contamination_risk = "unknown"
        THEN PaperUnknownBranch(profile)
    ELSE IF profile.material = "paper_cardboard"
            /\ profile.contamination_risk = "high"
        THEN PaperHighBranch(profile)
    ELSE IF profile.material = "paper_cardboard"
            /\ profile.contamination_risk = "medium"
        THEN PaperMediumBranch(profile)
    ELSE IF profile.material \in recyclable_materials
            /\ profile.contamination_risk \in {"medium", "high"}
        THEN ContaminatedBranch(profile)
    ELSE DefaultBranch(profile)

\* rules.py:36-196, the decision table: the rules are tried in the order of
\* the source and the first that matches returns.
DecisionTable(profile) ==
    IF profile.special_handling # "none" THEN SpecialBranch(profile)
    ELSE IF profile.material = "organic" THEN OrganicBranch(profile)
    ELSE IF profile.material \in recyclable_materials
            /\ profile.contamination_risk = "low"
        THEN CleanRecyclableBranch(profile)
    ELSE IF profile.material = "film_plastic" THEN FilmPlasticBranch(profile)
    ELSE IF profile.material = "paper_cardboard"
            /\ profile.contamination_risk = "unknown"
        THEN PaperUnknownBranch(profile)
    ELSE IF profile.material = "paper_cardboard"
            /\ profile.contamination_risk = "high"
        THEN PaperHighBranch(profile)
    ELSE IF profile.material = "paper_cardboard"
            /\ profile.contamination_risk = "medium"
        THEN PaperMediumBranch(profile)
    ELSE IF profile.material \in recyclable_materials
            /\ profile.contamination_risk \in {"medium", "high"}
        THEN ContaminatedBranch(profile)
    ELSE IF profile.material = "unknown" \/ profile.form_factor = "unknown"
        THEN UnknownAttributeBranch(profile)
    ELSE DefaultBranch(profile)

\* Mutant of decide_bin_from_profile: another jurisdiction accepts clean
\* plastic film in recycling and asks nothing about paper.
decide_bin_from_profile_perJurisdiction(profile, jurisdiction_id) ==
    IF /\ jurisdiction_id # "CA_DEFAULT"
       /\ profile.special_handling = "none"
       /\ \/ profile.material = "film_plastic"
          \/ profile.material = "paper_cardboard"
    THEN CleanRecyclableBranch(profile)
    ELSE DecisionTable(profile)

\* rules.py:17-196; jurisdiction_id is a parameter the body never reads.
decide_bin_from_profile(profile, jurisdiction_id) == DecisionTable(profile)

\* ------------------------------------------------------------------------
\* rules.py: decide_bin_from_labels
\* ------------------------------------------------------------------------

\* The Result every branch after the empty-list check builds (best is
\* labels[0], top is labels[:5]).
LabelResult(labels, bin, bin_label, entry) ==
    Result(bin, bin_label, _confidence_bucket(labels[1].score),
           labels[1].score,
           <<RationaleItem("DETECTED_ITEM", <<"Top match: ", labels[1].label>>),
             entry>>,
           Take(labels, TOP_N))

\* rules.py:210-225
NoLabelsBranch ==
    Outcome(Result("UNKNOWN", "Not sure yet", "LOW", 0,
                   <<RationaleItem("SYSTEM", <<"No labels returned">>)>>,
                   <<>>),
            TRUE, Some(TryAgainQuestion), None)

\* Mutant of decide_bin_from_labels: a battery anywhere in the list, not only
\* as the best label, gets special handling.
decide_bin_from_labels_anyBattery(labels, jurisdiction_id) ==
    IF labels = <<>> THEN NoLabelsBranch
    ELSE IF \E i \in 1..Len(labels) : labels[i].label \in {"battery"} THEN
        Outcome(LabelResult(labels, "SPECIAL", "Special handling",
                    RationaleItem("SAFETY",
                        <<"Batteries require special disposal">>)),
                FALSE, None,
                Some(SpecialHandling("BATTERY", instructions_map("battery"))))
    ELSE IF labels[1].label \in {"banana peel", "food"} THEN
        Outcome(LabelResult(labels, "GREEN", "Organics",
                    RationaleItem("RULE",
                        <<"Food and food scraps go in organics">>)),
                FALSE, None, None)
    ELSE IF labels[1].label \in {"plastic bottle", "aluminum can", "glass bottle"} THEN
        Outcome(LabelResult(labels, "BLUE", "Recycling",
                    RationaleItem("RULE",
                        <<"Rigid containers like bottles/cans typically go in recycling">>)),
                FALSE, None, None)
    ELSE IF labels[1].label \in {"plastic bag"} THEN
        Outcome(LabelResult(labels, "GRAY", "Landfill (Trash)",
                    RationaleItem("RULE",
                        <<"Plastic film/bags are usually not accepted in curbside recycling">>)),
                FALSE, None, None)
    ELSE IF labels[1].label \in {"paper box"} THEN
        Outcome(LabelResult(labels, "UNKNOWN", "Not sure yet",
                    RationaleItem("RULE",
                        <<"Paper can be recycling if clean; organics/trash if food-soiled">>)),
                TRUE, Some(FoodSoiledQuestion), None)
    ELSE
        Outcome(LabelResult(labels, "UNKNOWN", "Not sure yet",
                    RationaleItem("SYSTEM",
                        <<"Falling back to clarification for safety">>)),
                TRUE, Some(UnknownQuestion), None)

\* rules.py:199-316
decide_bin_from_labels(labels, jurisdiction_id) ==
    IF labels = <<>> THEN NoLabelsBranch
    ELSE IF labels[1].label \in {"battery"} THEN
        Outcome(LabelResult(labels, "SPECIAL", "Special handling",
                    RationaleItem("SAFETY",
                        <<"Batteries require special disposal">>)),
                FALSE, None,
                Some(SpecialHandling("BATTERY", instructions_map("battery"))))
    ELSE IF labels[1].label \in {"banana peel", "food"} THEN
        Outcome(LabelResult(labels, "GREEN", "Organics",
                    RationaleItem("RULE",
                        <<"Food and food scraps go in organics">>)),
                FALSE, None, None)
    ELSE IF labels[1].label \in {"plastic bottle", "aluminum can", "glass bottle"} THEN
        Outcome(LabelResult(labels, "BLUE", "Recycling",
                    RationaleItem("RULE",
                        <<"Rigid containers like bottles/cans typically go in recycling">>)),
                FALSE, None, None)
    ELSE IF labels[1].label \in {"plastic bag"} THEN
        Outcome(LabelResult(labels, "GRAY", "Landfill (Trash)",
                    RationaleItem("RULE",
                        <<"Plastic film/bags are usually not accepted in curbside recycling">>)),
                FALSE, None, None)
    ELSE IF labels[1].label \in {"paper box"} THEN
        Outcome(LabelResult(labels, "UNKNOWN", "Not sure yet",
                    RationaleItem("RULE",
                        <<"Paper can be recycling if clean; organics/trash if food-soiled">>)),
                TRUE, Some(FoodSoiledQuestion), None)
    ELSE
        Outcome(LabelResult(labels, "UNKNOWN", "Not sure yet",
                    RationaleItem("SYSTEM",
                        <<"Falling back to clarification for safety">>)),
                TRUE, Some(UnknownQuestion), None)

\* ------------------------------------------------------------------------
\* rules.py: apply_clarification
\* ------------------------------------------------------------------------

\* Mutant of base_rationale: the opening entry typed as in the two engines.
base_rationale_detected(question_id, answer) ==
    <<RationaleItem("DETECTED_ITEM",
        <<"Answered ", question_id, " = ", BoolStr(answer)>>)>>

\* rules.py:323
base_rationale(question_id, answer) ==
    <<RationaleItem("USER_INPUT",
        <<"Answered ", question_id, " = ", BoolStr(answer)>>)>>

\* Mutant of FoodSoiledAnswer: paper that is not food-soiled is sent to
\* landfill.
FoodSoiledAnswer_trash(answer, prior_top_labels, rationale) ==
    IF answer = TRUE
    THEN Result("GREEN", "Organics", "MEDIUM", FOOD_SOILED_SCORE,
                rationale \o <<RationaleItem("RULE",
                    <<"Food-soiled paper goes in organics (where accepted)">>)>>,
                Take(prior_top_labels, TOP_N))
    ELSE Result("GRAY", "Landfill (Trash)", "MEDIUM", FOOD_SOILED_SCORE,
                rationale \o <<RationaleItem("RULE",
                    <<"Clean paper/cardboard typically goes in recycling">>)>>,
                Take(prior_top_labels, TOP_N))

\* rules.py:325-342
FoodSoiledAnswer(answer, prior_top_labels, rationale) ==
    IF answer = TRUE
    THEN Result("GREEN", "Organics", "MEDIUM", FOOD_SOILED_SCORE,
                rationale \o <<RationaleItem("RULE",
                    <<"Food-soiled paper goes in organics (where accepted)">>)>>,
                Take(prior_top_labels, TOP_N))
    ELSE Result("BLUE", "Recycling", "MEDIUM", FOOD_SOILED_SCORE,
                rationale \o <<RationaleItem("RULE",
                    <<"Clean paper/cardboard typically goes in recycling">>)>>,
                Take(prior_top_labels, TOP_N))

\* Mutant of UnknownAnswer: the confidence level of the food-soiled answers
\* copied next to the score 0.55.
UnknownAnswer_medium(answer, prior_top_labels, rationale) ==
    Result(IF answer THEN "GREEN" ELSE "GRAY",
           IF answer THEN "Organics" ELSE "Landfill (Trash)",
           "MEDIUM", UNKNOWN_ANSWER_SCORE,
           rationale \o <<RationaleItem("RULE",
               <<"Heuristic decision based on your answer">>)>>,
           Take(prior_top_labels, TOP_N))

\* rules.py:344-352
UnknownAnswer(answer, prior_top_labels, rationale) ==
    Result(IF answer THEN "GREEN" ELSE "GRAY",
           IF answer THEN "Organics" ELSE "Landfill (Trash)",
           "LOW", UNKNOWN_ANSWER_SCORE,
           rationale \o <<RationaleItem("RULE",
               <<"Heuristic decision based on your answer">>)>>,
           Take(prior_top_labels, TOP_N))

\* rules.py:354-361
UnknownQuestionId(answer, prior_top_labels, rationale) ==
    Result("UNKNOWN", "Not sure yet", "LOW", 0,
           rationale \o <<RationaleItem("SYSTEM",
               <<"Unknown clarification question">>)>>,
           Take(prior_top_labels, TOP_N))

\* Mutant of apply_clarification: the test on q_unknown_01 is missing, every
\* question but the food-soiled one gets the heuristic answer.
apply_clarification_noFallback(question_id, answer, prior_top_labels) ==
    IF question_id = "q_food_soiled_01"
    THEN FoodSoiledAnswer(answer, prior_top_labels,
                          base_rationale(question_id, answer))
    ELSE UnknownAnswer(answer, prior_top_labels,
                       base_rationale(question_id, answer))

\* rules.py:319-361
apply_clarification(question_id, answer, prior_top_labels) ==
    IF question_id = "q_food_soiled_01"
    THEN FoodSoiledAnswer(answer, prior_top_labels,
                          base_rationale(question_id, answer))
    ELSE IF question_id = "q_unknown_01"
    THEN UnknownAnswer(answer, prior_top_labels,
                       base_rationale(question_id, answer))
    ELSE UnknownQuestionId(answer, prior_top_labels,
                           base_rationale(question_id, answer))

\* ------------------------------------------------------------------------
\* Inputs
\* ------------------------------------------------------------------------

\* The default of the handlers and one other jurisdiction.
Jurisdictions == {"CA_DEFAULT", "NY_NYC"}

\* Confidences a provider hands over, already clamped into [0, 1]: the two
\* boundaries of the bucketer, their lower neighbours and the two ends.
ConfidenceScores ==
    {0, MEDIUM_THRESHOLD - 1, MEDIUM_THRESHOLD, HIGH_THRESHOLD - 1,
     HIGH_THRESHOLD, MAX_SCORE}

\* vision_provider.py:58-67 and 172: the labels of the stub provider.
StubLabels ==
    {"plastic bottle", "paper box", "food", "banana peel", "battery",
     "aluminum can", "plastic bag", "glass bottle", "other item"}

\* The labels that follow the best one, best-first, 'battery' leading.
TailNames == <<"battery", "other item", "paper box", "food", "plastic bag">>

TailLabels ==
    [i \in 1..(MaxLabels - 1) |->
        LabelScore(TailNames[((i - 1) % Len(TailNames)) + 1], 500 - 10 * i)]

\* Scores of a best label: never below the scores of TailLabels.
BestScores ==
    {600, MEDIUM_THRESHOLD - 1, MEDIUM_THRESHOLD, HIGH_THRESHOLD - 1,
     HIGH_THRESHOLD, MAX_SCORE}

\* Best-first label lists of every length up to MaxLabels.
LabelLists ==
    {<<>>} \cup
    {<<LabelScore(n, sc)>> \o SubSeq(TailLabels, 1, k) :
        n \in StubLabels, sc \in BestScores, k \in 0..(MaxLabels - 1)}

\* The raw_labels of a profile: none, the two of the stub provider
\* (vision_provider.py:170-173), TOP_N and MaxLabels of them.
RawLabelLists ==
    {<<>>} \cup
    {<<LabelScore("plastic bottle", HIGH_THRESHOLD)>> \o SubSeq(TailLabels, 1, k - 1) :
        k \in {2, MaxLabels}}

\* The label lists a client sends back with a clarification answer.
PriorLabelLists ==
    {<<>>} \cup
    {<<LabelScore("paper box", 750)>> \o SubSeq(TailLabels, 1, k) :
        k \in 0..(MaxLabels - 1)}

Profiles ==
    {ItemProfile(m, f, c, sh, conf, raw) :
        m \in Materials, f \in FormFactors, c \in ContaminationRisks,
        sh \in SpecialCodes, conf \in ConfidenceScores, raw \in RawLabelLists}

\* The question ids of the engines, one of another service and the empty one.
QuestionIds ==
    {"q_food_soiled_01", "q_unknown_01", "q_try_again_01", "q_other_07", ""}

\* main.py:53, the id the middleware stores in request.state
MiddlewareRequestId == "req_0123456789ab"

\* main.py:182-188, the form of POST /v1/classify after the provider has
\* turned the image into a profile (main.py:200-205).
ClassifyRequest(profile, jurisdiction_id) ==
    [kind |-> "classify", profile |-> profile,
     jurisdiction_id |-> jurisdiction_id]

\* The arguments of a direct call of the legacy engine (rules.py:199-202).
LabelsRequest(labels, jurisdiction_id) ==
    [kind |-> "labels", labels |-> labels, jurisdiction_id |-> jurisdiction_id]

\* main.py:222-227
ClarifyRequest(request_id, question_id, answer, top_labels) ==
    [kind |-> "clarify", request_id |-> request_id,
     question_id |-> question_id, answer |-> answer,
     top_labels |-> top_labels]

\* The argument of a direct call of the bucketer (rules.py:9).
BucketRequest(score) == [kind |-> "bucket", score |-> score]

ClassifyRequests ==
    {ClassifyRequest(p, j) : p \in Profiles, j \in Jurisdictions}

LabelsRequests ==
    {LabelsRequest(l, j) : l \in LabelLists, j \in Jurisdictions}

ClarifyRequests ==
    {ClarifyRequest(rid, q, a, tl) :
        rid \in {"", "req_client"}, q \in QuestionIds, a \in BOOLEAN,
        tl \in {None} \cup {Some(l) : l \in PriorLabelLists}}

BucketRequests ==
    {BucketRequest(sc) : sc \in (0 - ScoreMargin)..(MAX_SCORE + ScoreMargin)}

\* ------------------------------------------------------------------------
\* State: one client session against the stateless service
\* ------------------------------------------------------------------------

VARIABLES
    req,    \* the request being handled, or the one last handled
    resp,   \* Optional: the response to req, None while req is pending
    prev,   \* Optional: the exchange the client keeps from its classify call
    calls   \* number of calls the service has answered in this session

vars == <<req, resp, prev, calls>>

Exchange(request, response) == [req |-> request, resp |-> response]

\* main.py:207-219, POST /v1/classify from the profile on
Classify ==
    /\ req.kind = "classify"
    /\ resp = None
    /\ LET out == decide_bin_from_profile(req.profile, req.jurisdiction_id)
       IN resp' = Some(ClassifyResponse(MiddlewareRequestId,
                                        req.jurisdiction_id, out.result,
                                        out.needs_clarification,
                                        out.clarification,
                                        out.special_handling))
    /\ calls' = calls + 1
    /\ UNCHANGED <<req, prev>>

\* rules.py:199-316, a direct call of the legacy engine
ClassifyLabels ==
    /\ req.kind = "labels"
    /\ resp = None
    /\ resp' = Some(decide_bin_from_labels(req.labels, req.jurisdiction_id))
    /\ calls' = calls + 1
    /\ UNCHANGED <<req, prev>>

\* Mutant of Clarify: an undetermined result asks the generic question again.
Clarify_chained ==
    /\ req.kind = "clarify"
    /\ resp = None
    /\ LET request_id == IF req.request_id # "" THEN req.request_id
                         ELSE MiddlewareRequestId
           prior == IF req.top_labels # None THEN req.top_labels[1] ELSE <<>>
           result == apply_clarification(req.question_id, req.answer, prior)
       IN resp' = Some(ClassifyResponse(request_id, "CA_DEFAULT", result,
                                        result.bin = "UNKNOWN",
                                        IF result.bin = "UNKNOWN"
                                        THEN Some(UnknownQuestion) ELSE None,
                                        None))
    /\ calls' = calls + 1
    /\ UNCHANGED <<req, prev>>

\* main.py:230-246, POST /v1/clarify
Clarify ==
    /\ req.kind = "clarify"
    /\ resp = None
    /\ LET request_id == IF req.request_id # "" THEN req.request_id
                         ELSE MiddlewareRequestId
           prior == IF req.top_labels # None THEN req.top_labels[1] ELSE <<>>
           result == apply_clarification(req.question_id, req.answer, prior)
       IN resp' = Some(ClassifyResponse(request_id, "CA_DEFAULT", result,
                                        FALSE, None, None))
    /\ calls' = calls + 1
    /\ UNCHANGED <<req, prev>>

\* rules.py:9-14, a direct call of the bucketer
Bucket ==
    /\ req.kind = "bucket"
    /\ resp = None
    /\ resp' = Some([bucket |-> _confidence_bucket(req.score)])
    /\ calls' = calls + 1
    /\ UNCHANGED <<req, prev>>

\* The client of the two-call flow: it answers the question of a handler's
\* response, sending back the question id, the request id and the
\* top_labels exactly as received (main.py:222-227).
ClientAnswer(answer) ==
    /\ req.kind \in {"classify", "clarify"}
    /\ resp # None
    /\ resp[1].needs_clarification
    /\ calls < MaxCalls
    /\ prev' = Some(Exchange(req, resp[1]))
    /\ req' = ClarifyRequest(resp[1].request_id,
                             resp[1].clarification[1].question_id, answer,
                             Some(resp[1].result.top_labels))
    /\ resp' = None
    /\ UNCHANGED calls

\* The client submits the profile of its classify call again, under any
\* jurisdiction, right after the response ...
Resubmit(jurisdiction_id) ==
    /\ req.kind = "classify"
    /\ resp # None
    /\ calls < MaxCalls
    /\ prev' = Some(Exchange(req, resp[1]))
    /\ req' = ClassifyRequest(req.profile, jurisdiction_id)
    /\ resp' = None
    /\ UNCHANGED calls

\* ... or after the clarification that followed it.
ResubmitAfterClarify(jurisdiction_id) ==
    /\ req.kind = "clarify"
    /\ resp # None
    /\ prev # None
    /\ prev[1].req.kind = "classify"
    /\ calls < MaxCalls
    /\ req' = ClassifyRequest(prev[1].req.profile, jurisdiction_id)
    /\ resp' = None
    /\ UNCHANGED <<prev, calls>>

Requests ==
    ClassifyRequests \cup LabelsRequests \cup ClarifyRequests \cup BucketRequests

Init ==
    /\ req \in Requests
    /\ resp = None
    /\ prev = None
    /\ calls = 0

Next ==
    \/ Classify
    \/ ClassifyLabels
    \/ Clarify
    \/ Bucket
    \/ \E answer \in BOOLEAN : ClientAnswer(answer)

Spec == Init /\ [][Next]_vars

\* Sessions in which the client repeats its classify call: the profiles of
\* one confidence on either side of a bucket boundary, with and without
\* raw labels.
RepeatProfiles ==
    {p \in Profiles :
        /\ p.confidence \in {MEDIUM_THRESHOLD - 1, HIGH_THRESHOLD}
        /\ Len(p.raw_labels) \in {0, MaxLabels}}

InitRepeat ==
    /\ req \in {ClassifyRequest(p, j) : p \in RepeatProfiles, j \in Jurisdictions}
    /\ resp = None
    /\ prev = None
    /\ calls = 0

NextRepeat ==
    \/ Classify
    \/ Clarify
    \/ \E answer \in BOOLEAN : ClientAnswer(answer)
    \/ \E j \in Jurisdictions : Resubmit(j)
    \/ \E j \in Jurisdictions : ResubmitAfterClarify(j)

SpecRepeat == InitRepeat /\ [][NextRepeat]_vars

\* ------------------------------------------------------------------------
\* Properties
\* ------------------------------------------------------------------------

\* The profile engine has answered the pending classify request.
ProfileAnswered == req.kind = "classify" /\ resp # None

\* The legacy label engine has answered.
LabelsAnswered == req.kind = "labels" /\ resp # None

\* The clarify handler has answered.
ClarifyAnswered == req.kind = "clarify" /\ resp # None

\* The bucketer has answered.
BucketAnswered == req.kind = "bucket" /\ resp # None

HasEntry(rationale, type) ==
    \E i \in 1..Len(rationale) : rationale[i].type = type

HasEntryText(rationale, type, text) ==
    \E i \in 1..Len(rationale) :
        rationale[i].type = type /\ rationale[i].text = <<text>>

\* C1: every profile whose special_handling is not 'none' gets bin SPECIAL,
\* needs_clarification = false, no clarification, and a special_handling
\* whose category is the one of the input code (UNKNOWN for any other code),
\* whatever its material, form factor, contamination and confidence.
C1_SpecialHandlingFirst ==
    (ProfileAnswered /\ req.profile.special_handling # "none") =>
        /\ resp[1].result.bin = "SPECIAL"
        /\ resp[1].needs_clarification = FALSE
        /\ resp[1].clarification = None
        /\ resp[1].special_handling # None
        /\ LET code == req.profile.special_handling
               category == resp[1].special_handling[1].category
           IN /\ code = "battery" => category = "BATTERY"
              /\ code = "e_waste" => category = "E_WASTE"
              /\ code = "hhw" => category = "HHW"
              /\ code = "sharps" => category = "SHARPS"
              /\ code \notin {"battery", "e_waste", "hhw", "sharps"} =>
                     category = "UNKNOWN"

\* An organic item of unknown contamination flagged as e-waste was sent to
\* special handling.
C1_Witness ==
    /\ ProfileAnswered
    /\ req.profile.special_handling = "e_waste"
    /\ req.profile.material = "organic"
    /\ req.profile.contamination_risk = "unknown"
    /\ resp[1].result.bin = "SPECIAL"
    /\ resp[1].special_handling # None
    /\ resp[1].special_handling[1].category = "E_WASTE"

\* C2 as stated: every profile with material film_plastic gets bin GRAY,
\* regardless of contamination_risk.
C2_FilmPlasticAlwaysGray ==
    (ProfileAnswered /\ req.profile.material = "film_plastic") =>
        resp[1].result.bin = "GRAY"

\* C2 (amended): every profile with material film_plastic and
\* special_handling 'none' gets bin GRAY, regardless of contamination_risk.
C2_FilmPlasticGrayUnlessSpecial ==
    (/\ ProfileAnswered
     /\ req.profile.material = "film_plastic"
     /\ req.profile.special_handling = "none") =>
        /\ resp[1].result.bin = "GRAY"
        /\ resp[1].needs_clarification = FALSE

\* A clean plastic film went to landfill although clean recyclables are
\* decided earlier in the table.
C2_Witness ==
    /\ ProfileAnswered
    /\ req.profile.material = "film_plastic"
    /\ req.profile.special_handling = "none"
    /\ req.profile.contamination_risk = "low"
    /\ resp[1].result.bin = "GRAY"

\* C3: every profile with material organic and special_handling 'none' gets
\* bin GREEN without a clarification, for every form factor and every
\* contamination_risk.
C3_OrganicAlwaysGreen ==
    (/\ ProfileAnswered
     /\ req.profile.material = "organic"
     /\ req.profile.special_handling = "none") =>
        /\ resp[1].result.bin = "GREEN"
        /\ resp[1].needs_clarification = FALSE

\* An organic item of unknown form and unknown contamination went to
\* organics.
C3_Witness ==
    /\ ProfileAnswered
    /\ req.profile.material = "organic"
    /\ req.profile.special_handling = "none"
    /\ req.profile.form_factor = "unknown"
    /\ req.profile.contamination_risk = "unknown"
    /\ resp[1].result.bin = "GREEN"

\* C4: in every outcome of the two engines, clarification and
\* special_handling are never both present, and clarification is present
\* exactly when needs_clarification is true.
C4_ClarificationXorSpecial ==
    (ProfileAnswered \/ LabelsAnswered) =>
        /\ ~(resp[1].clarification # None /\ resp[1].special_handling # None)
        /\ (resp[1].clarification # None) <=> (resp[1].needs_clarification = TRUE)

\* The legacy engine asked a question about a list whose second label is
\* 'battery', and attached no special handling.
C4_Witness ==
    /\ LabelsAnswered
    /\ resp[1].needs_clarification = TRUE
    /\ resp[1].clarification # None
    /\ resp[1].special_handling = None
    /\ Len(req.labels) > 1
    /\ req.labels[2].label = "battery"

\* C5: the bucketer maps a score >= 0.85 to HIGH, a score >= 0.65 and
\* < 0.85 to MEDIUM and every other score to LOW; 0.85 is HIGH, 0.849 and
\* 0.65 are MEDIUM, 0.649 is LOW (scores in thousandths).
C5_BucketThresholds ==
    BucketAnswered =>
        /\ resp[1].bucket \in {"HIGH", "MEDIUM", "LOW"}
        /\ (resp[1].bucket = "HIGH") <=> (req.score >= 850)
        /\ (resp[1].bucket = "MEDIUM") <=> (req.score >= 650 /\ req.score < 850)
        /\ (resp[1].bucket = "LOW") <=> (req.score < 650)
        /\ req.score = 850 => resp[1].bucket = "HIGH"
        /\ req.score = 849 => resp[1].bucket = "MEDIUM"
        /\ req.score = 650 => resp[1].bucket = "MEDIUM"
        /\ req.score = 649 => resp[1].bucket = "LOW"

\* The score just below the upper boundary was bucketed MEDIUM.
C5_Witness ==
    /\ BucketAnswered
    /\ req.score = 849
    /\ resp[1].bucket = "MEDIUM"

\* C6: the clarify outcome depends on (question_id, answer) only:
\* q_food_soiled_01 gives GREEN for true and BLUE for false, both MEDIUM and
\* 0.70; q_unknown_01 gives GREEN for true and GRAY for false, both LOW and
\* 0.55; this for every prior_top_labels.
C6_ClarificationTable ==
    ClarifyAnswered =>
        LET res == resp[1].result
        IN /\ req.question_id = "q_food_soiled_01" =>
                  /\ res.bin = (IF req.answer THEN "GREEN" ELSE "BLUE")
                  /\ res.confidence = "MEDIUM"
                  /\ res.confidence_score = 700
           /\ req.question_id = "q_unknown_01" =>
                  /\ res.bin = (IF req.answer THEN "GREEN" ELSE "GRAY")
                  /\ res.confidence = "LOW"
                  /\ res.confidence_score = 550

\* 'No' to q_food_soiled_01 gave BLUE although the client sent back more
\* than five labels.
C6_Witness ==
    /\ ClarifyAnswered
    /\ req.question_id = "q_food_soiled_01"
    /\ req.answer = FALSE
    /\ req.top_labels # None
    /\ Len(req.top_labels[1]) > 5
    /\ resp[1].result.bin = "BLUE"
    /\ resp[1].result.confidence_score = 700

\* C7: for every other question_id and either answer the resolver returns a
\* Result with bin UNKNOWN, confidence LOW, confidence_score 0.0 and a SYSTEM
\* rationale entry 'Unknown clarification question'.
C7_UnknownQuestionFallback ==
    (ClarifyAnswered
        /\ req.question_id \notin {"q_food_soiled_01", "q_unknown_01"}) =>
        LET res == resp[1].result
        IN /\ res.bin = "UNKNOWN"
           /\ res.confidence = "LOW"
           /\ res.confidence_score = 0
           /\ HasEntryText(res.rationale, "SYSTEM",
                           "Unknown clarification question")

\* The retake-photo question of the legacy engine, answered 'yes', ended in
\* the fallback.
C7_Witness ==
    /\ ClarifyAnswered
    /\ req.question_id = "q_try_again_01"
    /\ req.answer = TRUE
    /\ resp[1].result.bin = "UNKNOWN"
    /\ resp[1].result.confidence_score = 0

\* C8: the response of the clarify operation never asks a further question:
\* needs_clarification = false, clarification and special_handling absent,
\* for every question_id and answer; so a client has nothing to answer after
\* one clarification.
C8_OneLevelDeep ==
    ClarifyAnswered =>
        /\ resp[1].needs_clarification = FALSE
        /\ resp[1].clarification = None
        /\ resp[1].special_handling = None
        /\ ~ ENABLED (\E answer \in BOOLEAN : ClientAnswer(answer))

\* A classify-then-clarify flow ended with bin GRAY after its one
\* clarification.
C8_Witness ==
    /\ ClarifyAnswered
    /\ prev # None
    /\ prev[1].resp.needs_clarification = TRUE
    /\ req.question_id = prev[1].resp.clarification[1].question_id
    /\ resp[1].result.bin = "GRAY"
    /\ resp[1].needs_clarification = FALSE

\* The tuple that decide_bin_from_profile returned, as carried by a response.
OutcomeOf(response) ==
    Outcome(response.result, response.needs_clarification,
            response.clarification, response.special_handling)

\* C9: two calls of the profile engine with the same profile return the same
\* tuple (Result, needs_clarification, clarification, special_handling),
\* whatever the jurisdiction_id of each and whatever call came in between.
C9_SameProfileSameOutcome ==
    (/\ ProfileAnswered
     /\ prev # None
     /\ prev[1].req.kind = "classify"
     /\ prev[1].req.profile = req.profile) =>
        OutcomeOf(resp[1]) = OutcomeOf(prev[1].resp)

\* The third call of a session repeated the profile of the first under
\* another jurisdiction, after a clarification, and asked the same question.
C9_Witness ==
    /\ ProfileAnswered
    /\ calls = 3
    /\ prev # None
    /\ prev[1].req.profile = req.profile
    /\ prev[1].req.jurisdiction_id # req.jurisdiction_id
    /\ resp[1].needs_clarification = TRUE
    /\ OutcomeOf(resp[1]) = OutcomeOf(prev[1].resp)

\* The labels the legacy engine has a rule for (rules.py:231-284).
KnownLabels ==
    {"battery", "banana peel", "food", "plastic bottle", "aluminum can",
     "glass bottle", "plastic bag", "paper box"}

\* The request carries a value outside the declared enumerations, or a
\* question id the resolver does not know.
CarriesUnrecognized ==
    \/ /\ req.kind = "classify"
       /\ \/ req.profile.material \notin DeclaredMaterials
          \/ req.profile.form_factor \notin DeclaredFormFactors
          \/ req.profile.contamination_risk \notin DeclaredContamination
          \/ req.profile.special_handling \notin DeclaredSpecial
    \/ /\ req.kind = "labels"
       /\ req.labels # <<>>
       /\ req.labels[1].label \notin KnownLabels
    \/ /\ req.kind = "clarify"
       /\ req.question_id \notin {"q_food_soiled_01", "q_unknown_01"}

\* The response is a defined outcome of the data model.
WellFormed(response) ==
    /\ response.result.bin \in BinType
    /\ response.result.confidence \in Confidence
    /\ response.result.confidence_score \in 0..MAX_SCORE
    /\ \A i \in 1..Len(response.result.rationale) :
           response.result.rationale[i].type \in RationaleTypes
    /\ response.needs_clarification \in BOOLEAN
    /\ Len(response.clarification) <= 1
    /\ Len(response.special_handling) <= 1
    /\ response.special_handling # None =>
           response.special_handling[1].category \in SpecialCategories

UnknownWithSystem(response) ==
    /\ response.result.bin = "UNKNOWN"
    /\ HasEntry(response.result.rationale, "SYSTEM")

\* C10 as stated: every profile, label list or clarification request that
\* carries an unrecognized value is mapped to an outcome with bin UNKNOWN and
\* a SYSTEM rationale entry.
C10_UnrecognizedAlwaysUnknown ==
    (resp # None /\ CarriesUnrecognized) => UnknownWithSystem(resp[1])

\* C10 (amended): every request is mapped to a defined outcome; the outcome
\* is bin UNKNOWN with a SYSTEM entry for an unknown question_id, for an
\* unrecognized first label, and for a profile with special_handling 'none'
\* whose material is unrecognized or whose contamination_risk is
\* unrecognized while its material is neither organic nor film_plastic; an
\* unrecognized special_handling code gives SPECIAL with category UNKNOWN.
C10_TotalWithFallback ==
    (resp # None /\ req.kind \in {"classify", "labels", "clarify"}) =>
        /\ WellFormed(resp[1])
        /\ (req.kind \in {"labels", "clarify"} /\ CarriesUnrecognized) =>
               UnknownWithSystem(resp[1])
        /\ (/\ req.kind = "classify"
            /\ req.profile.special_handling = "none"
            /\ \/ req.profile.material \notin DeclaredMaterials
               \/ /\ req.profile.contamination_risk \notin DeclaredContamination
                  /\ req.profile.material \notin {"organic", "film_plastic"}) =>
               UnknownWithSystem(resp[1])
        /\ (/\ req.kind = "classify"
            /\ req.profile.special_handling \notin DeclaredSpecial) =>
               /\ resp[1].result.bin = "SPECIAL"
               /\ resp[1].special_handling # None
               /\ resp[1].special_handling[1].category = "UNKNOWN"

\* A clean box of an undeclared material ended in the default fallback.
C10_Witness ==
    /\ ProfileAnswered
    /\ req.profile.material = "ceramic"
    /\ req.profile.form_factor = "box"
    /\ req.profile.contamination_risk = "low"
    /\ req.profile.special_handling = "none"
    /\ resp[1].result.bin = "UNKNOWN"
    /\ HasEntryText(resp[1].result.rationale, "SYSTEM",
                    "Unable to determine classification")

\* The rationale is an opening entry of the given type followed by the one
\* RULE, SAFETY or SYSTEM entry that decided.
OpensThenDecides(rationale, opening) ==
    /\ Len(rationale) = 2
    /\ rationale[1].type = opening
    /\ rationale[2].type \in {"RULE", "SAFETY", "SYSTEM"}

\* C11 as stated: every Result of the two engines has a rationale that starts
\* with a DETECTED_ITEM entry, and every Result of the resolver one that
\* starts with a USER_INPUT entry, followed by the single RULE, SAFETY or
\* SYSTEM entry that decided the outcome.
C11_RationaleAlwaysOpens ==
    /\ (ProfileAnswered \/ LabelsAnswered) =>
           OpensThenDecides(resp[1].result.rationale, "DETECTED_ITEM")
    /\ ClarifyAnswered =>
           OpensThenDecides(resp[1].result.rationale, "USER_INPUT")

\* C11 (amended): as stated, except that the Result of the legacy engine for
\* an empty label list has a rationale of the single SYSTEM entry 'No labels
\* returned', with no DETECTED_ITEM entry before it.
C11_RationaleOpensUnlessNoLabels ==
    /\ ProfileAnswered =>
           OpensThenDecides(resp[1].result.rationale, "DETECTED_ITEM")
    /\ (LabelsAnswered /\ req.labels # <<>>) =>
           OpensThenDecides(resp[1].result.rationale, "DETECTED_ITEM")
    /\ (LabelsAnswered /\ req.labels = <<>>) =>
           resp[1].result.rationale =
               <<RationaleItem("SYSTEM", <<"No labels returned">>)>>
    /\ ClarifyAnswered =>
           OpensThenDecides(resp[1].result.rationale, "USER_INPUT")

\* The resolver recorded the answer to an unknown question before the SYSTEM
\* entry that decided.
C11_Witness ==
    /\ ClarifyAnswered
    /\ req.question_id = "q_other_07"
    /\ Len(resp[1].result.rationale) = 2
    /\ resp[1].result.rationale[1].type = "USER_INPUT"
    /\ resp[1].result.rationale[2].type = "SYSTEM"

\* out is the prefix of length min(5, n) of the sequence in of length n, in
\* the same order and with unchanged entries.
IsFirstFiveOf(out, in) ==
    /\ Len(out) = (IF Len(in) < 5 THEN Len(in) ELSE 5)
    /\ \A i \in 1..Len(out) : out[i] = in[i]

\* The label sequence handed to the operation that answered.
InputLabels ==
    IF req.kind = "classify" THEN req.profile.raw_labels
    ELSE IF req.kind = "labels" THEN req.labels
    ELSE IF req.top_labels # None THEN req.top_labels[1]
    ELSE <<>>

\* C12: for all three operations the returned top_labels is exactly the
\* prefix of length min(5, n) of the input label sequence (raw_labels,
\* labels, prior_top_labels), same order, same entries; empty when the input
\* is empty.
C12_TopLabelsArePrefix ==
    (ProfileAnswered \/ LabelsAnswered \/ ClarifyAnswered) =>
        /\ IsFirstFiveOf(resp[1].result.top_labels, InputLabels)
        /\ InputLabels = <<>> => resp[1].result.top_labels = <<>>

\* A profile with more than five raw labels came back with the first five.
C12_Witness ==
    /\ ProfileAnswered
    /\ Len(req.profile.raw_labels) > 5
    /\ Len(resp[1].result.top_labels) = 5
    /\ resp[1].result.top_labels[5] = req.profile.raw_labels[5]

\* The confidence level is the bucket of the score (thresholds 0.85, 0.65).
LevelMatchesScore(res) ==
    /\ (res.confidence = "HIGH") <=> (res.confidence_score >= 850)
    /\ (res.confidence = "MEDIUM") <=>
           (res.confidence_score >= 650 /\ res.confidence_score < 850)
    /\ (res.confidence = "LOW") <=> (res.confidence_score < 650)

\* C13: every Result of the three operations has confidence =
\* bucket(confidence_score); in the profile engine confidence_score is the
\* raw profile.confidence on every branch, the SPECIAL and the clarification
\* branches included.
C13_ConfidenceIsBucketOfScore ==
    /\ (ProfileAnswered \/ LabelsAnswered \/ ClarifyAnswered) =>
           LevelMatchesScore(resp[1].result)
    /\ ProfileAnswered =>
           resp[1].result.confidence_score = req.profile.confidence

\* A battery profile at the upper boundary kept its raw score and got HIGH.
C13_Witness ==
    /\ ProfileAnswered
    /\ req.profile.special_handling = "battery"
    /\ req.profile.confidence = 850
    /\ resp[1].result.bin = "SPECIAL"
    /\ resp[1].result.confidence_score = 850
    /\ resp[1].result.confidence = "HIGH"

\* C14: for special_handling 'none' and a material among paper_cardboard,
\* metal, glass and rigid_plastic, contamination low gives BLUE for all four;
\* medium or high gives GREEN for paper_cardboard and GRAY for the other
\* three (soiled paper never reaches the rule for contaminated recyclables);
\* none of these outcomes asks for a clarification.
C14_ContaminationDecidesRecyclables ==
    (/\ ProfileAnswered
     /\ req.profile.special_handling = "none"
     /\ req.profile.material \in {"paper_cardboard", "metal", "glass", "rigid_plastic"}) =>
        /\ req.profile.contamination_risk = "low" =>
               /\ resp[1].result.bin = "BLUE"
               /\ resp[1].needs_clarification = FALSE
        /\ req.profile.contamination_risk \in {"medium", "high"} =>
               /\ resp[1].result.bin =
                      (IF req.profile.material = "paper_cardboard"
                       THEN "GREEN" ELSE "GRAY")
               /\ resp[1].needs_clarification = FALSE
               /\ (req.profile.material = "paper_cardboard" =>
                      ~ HasEntryText(resp[1].result.rationale, "RULE",
                            "Contaminated recyclables typically go in trash"))

\* Heavily soiled paper went to organics, not to landfill.
C14_Witness ==
    /\ ProfileAnswered
    /\ req.profile.special_handling = "none"
    /\ req.profile.material = "paper_cardboard"
    /\ req.profile.contamination_risk = "high"
    /\ resp[1].result.bin = "GREEN"
    /\ resp[1].needs_clarification = FALSE

\* The id of the question a response asks, "" when it asks none.
QuestionOf(response) ==
    IF response.clarification = None THEN ""
    ELSE response.clarification[1].question_id

\* C15: the profile engine asks q_food_soiled_01 exactly for the profiles
\* with special_handling 'none', material paper_cardboard and contamination
\* unknown; every other outcome with needs_clarification carries
\* q_unknown_01; both come with bin UNKNOWN; and a profile with material
\* unknown and special_handling 'none' gets UNKNOWN with q_unknown_01 for
\* every contamination and form factor.
C15_WhichQuestion ==
    ProfileAnswered =>
        LET paperUnknown ==
                /\ req.profile.special_handling = "none"
                /\ req.profile.material = "paper_cardboard"
                /\ req.profile.contamination_risk = "unknown"
        IN /\ (QuestionOf(resp[1]) = "q_food_soiled_01") <=> paperUnknown
           /\ paperUnknown => resp[1].needs_clarification = TRUE
           /\ (resp[1].needs_clarification = TRUE /\ ~ paperUnknown) =>
                  QuestionOf(resp[1]) = "q_unknown_01"
           /\ resp[1].needs_clarification = TRUE =>
                  resp[1].result.bin = "UNKNOWN"
           /\ (/\ req.profile.material = "unknown"
               /\ req.profile.special_handling = "none") =>
                  /\ resp[1].result.bin = "UNKNOWN"
                  /\ resp[1].needs_clarification = TRUE
                  /\ QuestionOf(resp[1]) = "q_unknown_01"

\* A bottle of unknown material and high contamination got the generic
\* question.
C15_Witness ==
    /\ ProfileAnswered
    /\ req.profile.material = "unknown"
    /\ req.profile.form_factor = "bottle"
    /\ req.profile.contamination_risk = "high"
    /\ req.profile.special_handling = "none"
    /\ resp[1].result.bin = "UNKNOWN"
    /\ QuestionOf(resp[1]) = "q_unknown_01"

\* C16: the legacy engine decides from the first label only: an empty list
\* gives UNKNOWN, LOW, 0.0 and q_try_again_01; 'battery' gives SPECIAL with
\* category BATTERY and no question; 'banana peel' and 'food' give GREEN;
\* 'plastic bottle', 'aluminum can' and 'glass bottle' give BLUE; 'plastic
\* bag' gives GRAY; 'paper box' gives UNKNOWN with q_food_soiled_01; any
\* other first label gives UNKNOWN with q_unknown_01. The labels after the
\* first, 'battery' included, change none of this.
C16_FirstLabelDecides ==
    LabelsAnswered =>
        LET out == resp[1]
            plain(bin) ==
                /\ out.result.bin = bin
                /\ out.needs_clarification = FALSE
                /\ out.clarification = None
                /\ out.special_handling = None
            asks(question_id) ==
                /\ out.result.bin = "UNKNOWN"
                /\ out.needs_clarification = TRUE
                /\ QuestionOf(out) = question_id
                /\ out.special_handling = None
        IN IF req.labels = <<>>
           THEN /\ asks("q_try_again_01")
                /\ out.result.confidence = "LOW"
                /\ out.result.confidence_score = 0
           ELSE LET first == req.labels[1].label
                IN /\ first = "battery" =>
                          /\ out.result.bin = "SPECIAL"
                          /\ out.needs_clarification = FALSE
                          /\ out.clarification = None
                          /\ out.special_handling # None
                          /\ out.special_handling[1].category = "BATTERY"
                   /\ first \in {"banana peel", "food"} => plain("GREEN")
                   /\ first \in {"plastic bottle", "aluminum can", "glass bottle"} =>
                          plain("BLUE")
                   /\ first = "plastic bag" => plain("GRAY")
                   /\ first = "paper box" => asks("q_food_soiled_01")
                   /\ first \notin {"battery", "banana peel", "food",
                                    "plastic bottle", "aluminum can",
                                    "glass bottle", "plastic bag", "paper box"} =>
                          asks("q_unknown_01")

\* A plastic bottle followed by a battery went to recycling.
C16_Witness ==
    /\ LabelsAnswered
    /\ Len(req.labels) >= 2
    /\ req.labels[1].label = "plastic bottle"
    /\ req.labels[2].label = "battery"
    /\ resp[1].result.bin = "BLUE"
    /\ resp[1].special_handling = None

\* What an outcome decides: bin, needs_clarification, the id of the question
\* and the special handling; the rationale is left out.
DecisionOf(out) ==
    <<out.result.bin, out.needs_clarification, QuestionOf(out),
      out.special_handling>>

\* C17: two profiles that differ only in form_factor get the same bin,
\* needs_clarification, question id and special_handling: the decision on
\* the profile just answered is the decision on each of its variants in
\* form_factor.
C17_FormFactorIrrelevant ==
    ProfileAnswered =>
        \A f \in FormFactors :
            DecisionOf(decide_bin_from_profile(
                           [req.profile EXCEPT !.form_factor = f],
                           req.jurisdiction_id))
                = DecisionOf(resp[1])

\* A textile item of unknown form got the generic question, as a textile
\* sheet does by the default rule.
C17_Witness ==
    /\ ProfileAnswered
    /\ req.profile.material = "textile"
    /\ req.profile.form_factor = "unknown"
    /\ req.profile.special_handling = "none"
    /\ HasEntryText(resp[1].result.rationale, "SYSTEM",
                    "Falling back to clarification for safety")
    /\ DecisionOf(resp[1]) =
           DecisionOf(decide_bin_from_profile(
                          [req.profile EXCEPT !.form_factor = "sheet"],
                          req.jurisdiction_id))
    /\ QuestionOf(resp[1]) = "q_unknown_01"

\* C18: in the flow classify then clarify, with the question id of the
\* profile engine passed back exactly as received, the final Result has a bin
\* among BLUE, GREEN and GRAY for either answer, never UNKNOWN or SPECIAL.
C18_IssuedQuestionsResolve ==
    (/\ ClarifyAnswered
     /\ prev # None
     /\ prev[1].req.kind = "classify"
     /\ prev[1].resp.needs_clarification = TRUE
     /\ req.question_id = QuestionOf(prev[1].resp)) =>
        resp[1].result.bin \in {"BLUE", "GREEN", "GRAY"}

\* The food-soiled question about a paper box, answered 'no', ended in
\* recycling.
C18_Witness ==
    /\ ClarifyAnswered
    /\ prev # None
    /\ prev[1].req.kind = "classify"
    /\ prev[1].req.profile.material = "paper_cardboard"
    /\ QuestionOf(prev[1].resp) = "q_food_soiled_01"
    /\ req.question_id = "q_food_soiled_01"
    /\ req.answer = FALSE
    /\ resp[1].result.bin = "BLUE"

\* ------------------------------------------------------------------------
\* The stub provider and the two engines on the same item
\* ------------------------------------------------------------------------

\* vision_provider.py:155-164
StubProfilePool ==
    << <<"plastic bottle", "rigid_plastic", "bottle", "low", "none", 850>>,
       <<"paper box", "paper_cardboard", "box", "unknown", "none", 750>>,
       <<"food", "organic", "unknown", "low", "none", 800>>,
       <<"banana peel", "organic", "unknown", "low", "none", 900>>,
       <<"battery", "unknown", "unknown", "low", "battery", 950>>,
       <<"aluminum can", "metal", "can", "low", "none", 880>>,
       <<"plastic bag", "film_plastic", "bag_film", "low", "none", 820>>,
       <<"glass bottle", "glass", "bottle", "low", "none", 870>> >>

\* vision_provider.py:58-67: label, lowest and highest score
StubLabelPool ==
    << <<"plastic bottle", 700, 950>>,
       <<"paper box", 550, 900>>,
       <<"food", 400, 850>>,
       <<"banana peel", 550, 950>>,
       <<"battery", 600, 980>>,
       <<"aluminum can", 650, 950>>,
       <<"plastic bag", 550, 900>>,
       <<"glass bottle", 600, 950>> >>

\* vision_provider.py:172, rng.uniform(0.3, 0.5)
OtherItemScores == {300, 400, 500}

\* vision_provider.py:166-182, for the pool entry that rng.choice picked
_detect_item_profile_stub(choice, other_score) ==
    LET entry == StubProfilePool[choice]
    IN ItemProfile(entry[2], entry[3], entry[4], entry[5], entry[6],
                   <<LabelScore(entry[1], entry[6]),
                     LabelScore("other item", other_score)>>)

\* The scores the label stub can give a label (vision_provider.py:71), among
\* BestScores.
StubScoresOf(label) ==
    {sc \in BestScores :
        \E i \in 1..Len(StubLabelPool) :
            /\ StubLabelPool[i][1] = label
            /\ StubLabelPool[i][2] <= sc
            /\ sc <= StubLabelPool[i][3]}

\* POST /v1/classify with an image: what the stub draws from the bytes of
\* the image (vision_provider.py:151-152, 166 and 172).
ImageRequest(choice, other_score, jurisdiction_id) ==
    [kind |-> "image", choice |-> choice, other_score |-> other_score,
     jurisdiction_id |-> jurisdiction_id]

\* main.py:200-219 with the stub provider: the profile the provider returned
\* is kept in req next to the response.
ClassifyStub ==
    /\ req.kind = "image"
    /\ resp = None
    /\ LET profile == _detect_item_profile_stub(req.choice, req.other_score)
           out == decide_bin_from_profile(profile, req.jurisdiction_id)
       IN /\ req' = ClassifyRequest(profile, req.jurisdiction_id)
          /\ resp' = Some(ClassifyResponse(MiddlewareRequestId,
                                           req.jurisdiction_id, out.result,
                                           out.needs_clarification,
                                           out.clarification,
                                           out.special_handling))
    /\ calls' = calls + 1
    /\ UNCHANGED prev

\* A client of the legacy engine submits the same item: a best-first list of
\* two or three labels (vision_provider.py:69) whose first label is the
\* label of the item, with a score the label stub can give it.
LegacyOnSameItem(score, k) ==
    /\ req.kind = "classify"
    /\ resp # None
    /\ prev = None
    /\ calls < MaxCalls
    /\ req.profile.raw_labels # <<>>
    /\ score \in StubScoresOf(req.profile.raw_labels[1].label)
    /\ prev' = Some(Exchange(req, resp[1]))
    /\ req' = LabelsRequest(
                  <<LabelScore(req.profile.raw_labels[1].label, score)>>
                      \o SubSeq(TailLabels, 1, k),
                  req.jurisdiction_id)
    /\ resp' = None
    /\ UNCHANGED calls

InitStub ==
    /\ req \in {ImageRequest(c, o, j) :
                    c \in 1..Len(StubProfilePool), o \in OtherItemScores,
                    j \in Jurisdictions}
    /\ resp = None
    /\ prev = None
    /\ calls = 0

NextStub ==
    \/ ClassifyStub
    \/ \E sc \in BestScores, k \in 1..2 : LegacyOnSameItem(sc, k)
    \/ ClassifyLabels

SpecStub == InitStub /\ [][NextStub]_vars

\* The category of the special handling of an outcome, "" when it has none.
CategoryOf(out) ==
    IF out.special_handling = None THEN ""
    ELSE out.special_handling[1].category

\* C19: on each of the eight items of the stub provider the two engines
\* agree: the legacy engine on a list whose first label is the label of the
\* item and the profile engine on the profile of the item return the same
\* bin, the same needs_clarification, the same question id and the same
\* special-handling category.
C19_EnginesAgreeOnStubPool ==
    (/\ LabelsAnswered
     /\ prev # None
     /\ prev[1].req.kind = "classify") =>
        /\ resp[1].result.bin = prev[1].resp.result.bin
        /\ resp[1].needs_clarification = prev[1].resp.needs_clarification
        /\ QuestionOf(resp[1]) = QuestionOf(prev[1].resp)
        /\ CategoryOf(resp[1]) = CategoryOf(prev[1].resp)

\* Both engines sent the battery of the stub pool to special handling, and
\* both asked about the paper box; here the battery.
C19_Witness ==
    /\ LabelsAnswered
    /\ prev # None
    /\ prev[1].req.kind = "classify"
    /\ prev[1].req.profile.special_handling = "battery"
    /\ req.labels[1].label = "battery"
    /\ resp[1].result.bin = "SPECIAL"
    /\ prev[1].resp.result.bin = "SPECIAL"
    /\ CategoryOf(resp[1]) = "BATTERY"
    /\ CategoryOf(prev[1].resp) = "BATTERY"

====
